---- MODULE Spec2Model ----
(***************************************************************************)
(* Model of utilities/src/polynomial.rs: the Polynomial value type (a      *)
(* Vec<i64> of coefficients indexed by exponent) and its operations.       *)
(*                                                                         *)
(* A Rust Vec<i64> is a TLA+ sequence; Rust index k is TLA+ index k + 1.   *)
(* Every loop of the source is a recursive operator whose body is the      *)
(* loop's body; add/sub/mul/differentiate/pow/apply are in addition run    *)
(* step by step by the actions below, one loop iteration per step.         *)
(*                                                                         *)
(* Coefficients are i64.  Every value the model computes stays far below   *)
(* 2^31 in magnitude (TLC itself stops with an overflow error beyond       *)
(* that), so within the model's bounds no i64 operation overflows and      *)
(* i64 arithmetic coincides with integer arithmetic.                       *)
(***************************************************************************)
EXTENDS Integers, Sequences, FiniteSets

\* ------------------------------------------------------------------ bounds
MaxLen == 3
MaxRhsLen == 2
MaxExp == 3

\* Coefficient values of the receiver and of the argument (rhs, g).
CoefVals == {-1, 0, 2}
RhsVals == {-1, 0, 1}

SeqsUpTo(n, S) == UNION {[1..m -> S] : m \in 0..n}
Polys == SeqsUpTo(MaxLen, CoefVals)
RhsPolys == SeqsUpTo(MaxRhsLen, RhsVals)

\* ------------------------------------------------------- pure operations

\* Self::new(): the empty coefficient vector.
new == <<>>

RECURSIVE push_all(_, _)
\* for x in v { acc.push(*x) }
push_all(acc, v) ==
    IF v = <<>> THEN acc ELSE push_all(Append(acc, Head(v)), Tail(v))

\* Self::of_vec(&v): copies v element by element into a fresh vector.
of_vec(v) == push_all(<<>>, v)

\* self.to_owned(): derived Clone of the coefficient vector.
to_owned(v) == v

\* Self::monomial(coef, power): vec![0; power] followed by push(coef).
monomial(c, n) == Append([k \in 1..n |-> 0], c)

\* Body of the loop of add_vec_inplace, for rhs entry y at index k.
add_vec_body_nogrow(v, k, y) ==
    IF k >= Len(v) THEN v ELSE [v EXCEPT ![k + 1] = @ + y]
add_vec_body(v, k, y) ==
    IF k >= Len(v) THEN Append(v, y) ELSE [v EXCEPT ![k + 1] = @ + y]

RECURSIVE add_vec_loop(_, _, _)
add_vec_loop(v, r, k) ==
    IF k >= Len(r) THEN v ELSE add_vec_loop(add_vec_body(v, k, r[k + 1]), r, k + 1)

add_vec_inplace(v, r) == add_vec_loop(v, r, 0)

\* add: copy self.coefs by pushes, add_vec_inplace on the copy, of_vec.
add(a, b) == of_vec(add_vec_inplace(push_all(<<>>, a), b))

\* Body of the loop of sub_vec_inplace.
sub_vec_body_pushpos(v, k, y) ==
    IF k >= Len(v) THEN Append(v, y) ELSE [v EXCEPT ![k + 1] = @ - y]
sub_vec_body(v, k, y) ==
    IF k >= Len(v) THEN Append(v, -y) ELSE [v EXCEPT ![k + 1] = @ - y]

RECURSIVE sub_vec_loop(_, _, _)
sub_vec_loop(v, r, k) ==
    IF k >= Len(r) THEN v ELSE sub_vec_loop(sub_vec_body(v, k, r[k + 1]), r, k + 1)

sub_vec_inplace(v, r) == sub_vec_loop(v, r, 0)

sub(a, b) == of_vec(sub_vec_inplace(push_all(<<>>, a), b))

\* The index written by the inner loop of mul.
mul_index_off(m, n) == m + n + 1
mul_index(m, n) == m + n

\* Body of the inner loop of mul, for self entry x at m and rhs entry y at n.
mul_body_overwrite(v, m, n, x, y) ==
    IF mul_index(m, n) >= Len(v)
    THEN Append(v, x * y)
    ELSE [v EXCEPT ![mul_index(m, n) + 1] = x * y]
mul_body(v, m, n, x, y) ==
    IF mul_index(m, n) >= Len(v)
    THEN Append(v, x * y)
    ELSE [v EXCEPT ![mul_index(m, n) + 1] = @ + x * y]

RECURSIVE mul_loop(_, _, _, _, _)
mul_loop(v, a, b, m, n) ==
    IF m >= Len(a) \/ Len(b) = 0 THEN v
    ELSE LET w == mul_body(v, m, n, a[m + 1], b[n + 1])
         IN  IF n + 1 < Len(b) THEN mul_loop(w, a, b, m, n + 1)
                               ELSE mul_loop(w, a, b, m + 1, 0)

mul(a, b) == of_vec(mul_loop(<<>>, a, b, 0, 0))

\* The two non-recursive branches of pow.
pow_base_self(a, e) == to_owned(a)
pow_base(a, e) == IF e = 0 THEN of_vec(<<1>>) ELSE to_owned(a)

RECURSIVE pow(_, _)
pow(a, e) ==
    IF e = 0 \/ e = 1 THEN pow_base(a, e) ELSE mul(to_owned(a), pow(a, e - 1))

\* The polynomial added to out by iteration m of apply.
apply_term_noscale(g, m, x) == pow(g, m)
apply_term(g, m, x) == mul(pow(g, m), of_vec(<<x>>))

RECURSIVE apply_loop(_, _, _, _)
apply_loop(o, a, g, m) ==
    IF m >= Len(a) THEN o
    ELSE apply_loop(add_vec_inplace(o, apply_term(g, m, a[m + 1])), a, g, m + 1)

apply(a, g) == apply_loop(new, a, g, 0)

\* Body of the loop of differentiate, for entry x at index m.
diff_body_keep0(v, m, x) == Append(v, x * m)
diff_body(v, m, x) == IF m > 0 THEN Append(v, x * m) ELSE v

RECURSIVE diff_loop(_, _, _)
diff_loop(v, a, m) ==
    IF m >= Len(a) THEN v ELSE diff_loop(diff_body(v, m, a[m + 1]), a, m + 1)

differentiate(a) == of_vec(diff_loop(<<>>, a, 0))

RECURSIVE all_zero_from(_, _)
all_zero_from(a, m) ==
    IF m > Len(a) THEN TRUE
    ELSE IF a[m] = 0 THEN all_zero_from(a, m + 1) ELSE FALSE

\* self.coefs.iter().all(|x| *x == 0)
is_zero_last(a) == IF Len(a) = 0 THEN TRUE ELSE a[Len(a)] = 0
is_zero_empty(a) == Len(a) = 0
is_zero(a) == all_zero_from(a, 1)

\* unimode::find_unimode(p, 0.0, 1.0): the outcomes a call can produce.
\* The first two decisions are fixed; how the remaining three outcomes are
\* told apart is left open, so any of them is possible there.
find_unimode(a) ==
    IF is_zero(a) THEN {"Zero"}
    ELSE IF is_zero(differentiate(a)) THEN {"Constant"}
    ELSE {"Unimodal", "Nonmodal", "Multimodal"}

find_prob_unimode(a) == find_unimode(a)

Modality == {"Unimodal", "Zero", "Constant", "Nonmodal", "Multimodal"}

\* ------------------------------------------------------------------ state
VARIABLES
    op,          \* the operation in progress
    pc,          \* position inside it
    p,           \* the receiver's coefficients when the call was made
    self_coefs,  \* self.coefs
    rhs_coefs,   \* rhs.coefs (g.coefs for apply)
    coefs,       \* the vector being built (the local, or &mut self.coefs)
    pos,         \* enumerate() index of add_vec_inplace / sub_vec_inplace
    i,           \* outer enumerate() index
    j,           \* inner enumerate() index of mul
    exp,         \* exp of the pow call currently executing
    frames,      \* pow calls suspended at self.pow(exp - 1)
    muls,        \* multiplications performed by pow so far
    out,         \* the returned polynomial
    flag,        \* the returned bool
    modality     \* the returned Modality

vars == <<op, pc, p, self_coefs, rhs_coefs, coefs, pos, i, j, exp, frames,
          muls, out, flag, modality>>

Init ==
    /\ op = "none" /\ pc = "idle"
    /\ p = <<>> /\ self_coefs = <<>> /\ rhs_coefs = <<>>
    /\ coefs = <<>> /\ pos = 0 /\ i = 0 /\ j = 0
    /\ exp = 0 /\ frames = 0 /\ muls = 0
    /\ out = <<>> /\ flag = FALSE /\ modality = "none"

\* ---------------------------------------------------------- add / sub
CallAdd ==
    /\ pc = "idle"
    /\ \E a \in Polys, b \in RhsPolys :
        /\ p' = a /\ self_coefs' = a /\ rhs_coefs' = b
        /\ coefs' = push_all(<<>>, a)
    /\ op' = "add" /\ pc' = "add_vec" /\ pos' = 0
    /\ UNCHANGED <<i, j, exp, frames, muls, out, flag, modality>>

CallAddInplace ==
    /\ pc = "idle"
    /\ \E a \in Polys, b \in RhsPolys :
        /\ p' = a /\ self_coefs' = a /\ rhs_coefs' = b
        /\ coefs' = a
    /\ op' = "add_inplace" /\ pc' = "add_vec" /\ pos' = 0
    /\ UNCHANGED <<i, j, exp, frames, muls, out, flag, modality>>

AddVecStep ==
    /\ pc = "add_vec" /\ pos < Len(rhs_coefs)
    /\ coefs' = add_vec_body(coefs, pos, rhs_coefs[pos + 1])
    /\ self_coefs' = IF op = "add_inplace" THEN coefs' ELSE self_coefs
    /\ pos' = pos + 1
    /\ UNCHANGED <<op, pc, p, rhs_coefs, i, j, exp, frames, muls, out, flag,
                   modality>>

AddReturn ==
    /\ pc = "add_vec" /\ pos >= Len(rhs_coefs) /\ op = "add"
    /\ out' = of_vec(coefs)
    /\ pc' = "done"
    /\ UNCHANGED <<op, p, self_coefs, rhs_coefs, coefs, pos, i, j, exp,
                   frames, muls, flag, modality>>

AddInplaceReturn ==
    /\ pc = "add_vec" /\ pos >= Len(rhs_coefs) /\ op = "add_inplace"
    /\ pc' = "done"
    /\ UNCHANGED <<op, p, self_coefs, rhs_coefs, coefs, pos, i, j, exp,
                   frames, muls, out, flag, modality>>

CallSub ==
    /\ pc = "idle"
    /\ \E a \in Polys, b \in RhsPolys :
        /\ p' = a /\ self_coefs' = a /\ rhs_coefs' = b
        /\ coefs' = push_all(<<>>, a)
    /\ op' = "sub" /\ pc' = "sub_vec" /\ pos' = 0
    /\ UNCHANGED <<i, j, exp, frames, muls, out, flag, modality>>

CallSubInplace ==
    /\ pc = "idle"
    /\ \E a \in Polys, b \in RhsPolys :
        /\ p' = a /\ self_coefs' = a /\ rhs_coefs' = b
        /\ coefs' = a
    /\ op' = "sub_inplace" /\ pc' = "sub_vec" /\ pos' = 0
    /\ UNCHANGED <<i, j, exp, frames, muls, out, flag, modality>>

SubVecStep ==
    /\ pc = "sub_vec" /\ pos < Len(rhs_coefs)
    /\ coefs' = sub_vec_body(coefs, pos, rhs_coefs[pos + 1])
    /\ self_coefs' = IF op = "sub_inplace" THEN coefs' ELSE self_coefs
    /\ pos' = pos + 1
    /\ UNCHANGED <<op, pc, p, rhs_coefs, i, j, exp, frames, muls, out, flag,
                   modality>>

SubReturn ==
    /\ pc = "sub_vec" /\ pos >= Len(rhs_coefs) /\ op = "sub"
    /\ out' = of_vec(coefs)
    /\ pc' = "done"
    /\ UNCHANGED <<op, p, self_coefs, rhs_coefs, coefs, pos, i, j, exp,
                   frames, muls, flag, modality>>

SubInplaceReturn ==
    /\ pc = "sub_vec" /\ pos >= Len(rhs_coefs) /\ op = "sub_inplace"
    /\ pc' = "done"
    /\ UNCHANGED <<op, p, self_coefs, rhs_coefs, coefs, pos, i, j, exp,
                   frames, muls, out, flag, modality>>

\* ------------------------------------------------------------------- mul
CallMul ==
    /\ pc = "idle"
    /\ \E a \in Polys, b \in RhsPolys :
        /\ p' = a /\ self_coefs' = a /\ rhs_coefs' = b
    /\ coefs' = <<>>
    /\ op' = "mul" /\ pc' = "mul" /\ i' = 0 /\ j' = 0
    /\ UNCHANGED <<pos, exp, frames, muls, out, flag, modality>>

MulStep ==
    /\ pc = "mul" /\ i < Len(self_coefs) /\ j < Len(rhs_coefs)
    /\ coefs' = mul_body(coefs, i, j, self_coefs[i + 1], rhs_coefs[j + 1])
    /\ IF j + 1 < Len(rhs_coefs)
       THEN i' = i /\ j' = j + 1
       ELSE i' = i + 1 /\ j' = 0
    /\ UNCHANGED <<op, pc, p, self_coefs, rhs_coefs, pos, exp, frames, muls,
                   out, flag, modality>>

MulReturn ==
    /\ pc = "mul" /\ (i >= Len(self_coefs) \/ Len(rhs_coefs) = 0)
    /\ out' = of_vec(coefs)
    /\ pc' = "done"
    /\ UNCHANGED <<op, p, self_coefs, rhs_coefs, coefs, pos, i, j, exp,
                   frames, muls, flag, modality>>

\* ------------------------------------------------------------------- pow
CallPow ==
    /\ pc = "idle"
    /\ \E a \in Polys, e \in 0..MaxExp :
        /\ p' = a /\ self_coefs' = a /\ exp' = e
    /\ op' = "pow" /\ pc' = "pow" /\ frames' = 0 /\ muls' = 0
    /\ UNCHANGED <<rhs_coefs, coefs, pos, i, j, out, flag, modality>>

PowBase ==
    /\ pc = "pow" /\ (exp = 0 \/ exp = 1)
    /\ out' = pow_base(self_coefs, exp)
    /\ pc' = "pow_ret"
    /\ UNCHANGED <<op, p, self_coefs, rhs_coefs, coefs, pos, i, j, exp,
                   frames, muls, flag, modality>>

PowRecurse ==
    /\ pc = "pow" /\ exp >= 2
    /\ exp' = exp - 1 /\ frames' = frames + 1
    /\ UNCHANGED <<op, pc, p, self_coefs, rhs_coefs, coefs, pos, i, j, muls,
                   out, flag, modality>>

PowMul ==
    /\ pc = "pow_ret" /\ frames > 0
    /\ out' = mul(to_owned(self_coefs), out)
    /\ exp' = exp + 1 /\ frames' = frames - 1 /\ muls' = muls + 1
    /\ UNCHANGED <<op, pc, p, self_coefs, rhs_coefs, coefs, pos, i, j, flag,
                   modality>>

PowReturn ==
    /\ pc = "pow_ret" /\ frames = 0
    /\ pc' = "done"
    /\ UNCHANGED <<op, p, self_coefs, rhs_coefs, coefs, pos, i, j, exp,
                   frames, muls, out, flag, modality>>

\* ----------------------------------------------------------------- apply
CallApply ==
    /\ pc = "idle"
    /\ \E a \in Polys, g \in RhsPolys :
        /\ p' = a /\ self_coefs' = a /\ rhs_coefs' = g
    /\ out' = new
    /\ op' = "apply" /\ pc' = "apply" /\ i' = 0
    /\ UNCHANGED <<coefs, pos, j, exp, frames, muls, flag, modality>>

ApplyStep ==
    /\ pc = "apply" /\ i < Len(self_coefs)
    /\ out' = add_vec_inplace(out, apply_term(rhs_coefs, i, self_coefs[i + 1]))
    /\ i' = i + 1
    /\ UNCHANGED <<op, pc, p, self_coefs, rhs_coefs, coefs, pos, j, exp,
                   frames, muls, flag, modality>>

ApplyReturn ==
    /\ pc = "apply" /\ i >= Len(self_coefs)
    /\ pc' = "done"
    /\ UNCHANGED <<op, p, self_coefs, rhs_coefs, coefs, pos, i, j, exp,
                   frames, muls, out, flag, modality>>

\* --------------------------------------------------------- differentiate
CallDifferentiate ==
    /\ pc = "idle"
    /\ \E a \in Polys : p' = a /\ self_coefs' = a
    /\ coefs' = <<>>
    /\ op' = "differentiate" /\ pc' = "diff" /\ i' = 0
    /\ UNCHANGED <<rhs_coefs, pos, j, exp, frames, muls, out, flag, modality>>

DiffStep ==
    /\ pc = "diff" /\ i < Len(self_coefs)
    /\ coefs' = diff_body(coefs, i, self_coefs[i + 1])
    /\ i' = i + 1
    /\ UNCHANGED <<op, pc, p, self_coefs, rhs_coefs, pos, j, exp, frames,
                   muls, out, flag, modality>>

DiffReturn ==
    /\ pc = "diff" /\ i >= Len(self_coefs)
    /\ out' = of_vec(coefs)
    /\ pc' = "done"
    /\ UNCHANGED <<op, p, self_coefs, rhs_coefs, coefs, pos, i, j, exp,
                   frames, muls, flag, modality>>

\* ------------------------------------------- is_zero / find_prob_unimode
CallIsZero ==
    /\ pc = "idle"
    /\ \E a \in Polys :
        /\ p' = a /\ self_coefs' = a
        /\ flag' = is_zero(a)
    /\ op' = "is_zero" /\ pc' = "done"
    /\ UNCHANGED <<rhs_coefs, coefs, pos, i, j, exp, frames, muls, out,
                   modality>>

CallFindProbUnimode ==
    /\ pc = "idle"
    /\ \E a \in Polys :
        /\ p' = a /\ self_coefs' = a
        /\ \E m \in find_prob_unimode(a) : modality' = m
    /\ op' = "find_prob_unimode" /\ pc' = "done"
    /\ UNCHANGED <<rhs_coefs, coefs, pos, i, j, exp, frames, muls, out, flag>>

Next ==
    \/ CallAdd \/ CallAddInplace \/ AddVecStep \/ AddReturn \/ AddInplaceReturn
    \/ CallSub \/ CallSubInplace \/ SubVecStep \/ SubReturn \/ SubInplaceReturn
    \/ CallMul \/ MulStep \/ MulReturn
    \/ CallPow \/ PowBase \/ PowRecurse \/ PowMul \/ PowReturn
    \/ CallApply \/ ApplyStep \/ ApplyReturn
    \/ CallDifferentiate \/ DiffStep \/ DiffReturn
    \/ CallIsZero \/ CallFindProbUnimode

Spec == Init /\ [][Next]_vars

\* ------------------------------------------------ vocabulary of the claims
Max(x, y) == IF x >= y THEN x ELSE y

\* The coefficient of a at exponent k, zero past the end of the sequence.
At(a, k) == IF k < Len(a) THEN a[k + 1] ELSE 0

\* Same value at every exponent.
CoefEq(a, b) == \A k \in 0..Max(Len(a), Len(b)) : At(a, k) = At(b, k)

Done(o) == op = o /\ pc = "done"

RECURSIVE ConvSumFrom(_, _, _, _)
ConvSumFrom(a, b, k, m) ==
    IF m >= Len(a) THEN 0
    ELSE (IF k - m >= 0 /\ k - m < Len(b) THEN a[m + 1] * b[k - m + 1] ELSE 0)
         + ConvSumFrom(a, b, k, m + 1)

\* Sum of a[m] * b[n] over the in-range pairs with m + n = k.
ConvSum(a, b, k) == ConvSumFrom(a, b, k, 0)

ConvProd(a, b) ==
    IF Len(a) = 0 \/ Len(b) = 0 THEN <<>>
    ELSE [k \in 1..(Len(a) + Len(b) - 1) |-> ConvSum(a, b, k - 1)]

RECURSIVE ConvPower(_, _)
\* The n-fold convolution product of a with itself, n >= 1.
ConvPower(a, n) == IF n = 1 THEN a ELSE ConvProd(a, ConvPower(a, n - 1))

Pointwise(a, b, sgn) ==
    [k \in 1..Max(Len(a), Len(b)) |-> At(a, k - 1) + sgn * At(b, k - 1)]

RECURSIVE Trim(_)
Trim(a) ==
    IF Len(a) = 0 THEN a
    ELSE IF a[Len(a)] = 0 THEN Trim(SubSeq(a, 1, Len(a) - 1)) ELSE a

Pad(a, n) == a \o [k \in 1..n |-> 0]

\* Sequences with the same value as a at every exponent: a without its
\* trailing zeros, and a with one more.  Every sequence of the model's input
\* sets has the first of these in common with all its padded forms.
Variants(a) == {Trim(a), Pad(a, 1)}

AllCoefsZero(a) == \A k \in 1..Len(a) : a[k] = 0
HigherCoefsZero(a) == \A k \in 2..Len(a) : a[k] = 0

RECURSIVE TermSumFrom(_, _, _, _)
TermSumFrom(a, gs, k, m) ==
    IF m >= Len(a) THEN 0
    ELSE a[m + 1] * At(gs[m + 1], k) + TermSumFrom(a, gs, k, m + 1)

\* Coefficient at exponent k of the sum over m of a[m] * gs[m], where gs
\* lists the powers g^0, g^1, ... of g.
TermSum(a, gs, k) == TermSumFrom(a, gs, k, 0)

RECURSIVE MaxLenOf(_)
MaxLenOf(gs) == IF gs = <<>> THEN 0 ELSE Max(Len(Head(gs)), MaxLenOf(Tail(gs)))

\* ------------------------------------------------------------------ claims

\* C1: multiply(a, b) is the full discrete convolution: with both operands
\* nonempty the result has length len(a) + len(b) - 1 and its coefficient at
\* every index k is the sum of a[m] * b[n] over the in-range pairs with
\* m + n = k; with an empty operand the result is the empty sequence.
C1_MulIsConvolution ==
    Done("mul") =>
        IF Len(p) = 0 \/ Len(rhs_coefs) = 0
        THEN out = <<>>
        ELSE /\ Len(out) = Len(p) + Len(rhs_coefs) - 1
             /\ \A k \in 0..(Len(out) - 1) : out[k + 1] = ConvSum(p, rhs_coefs, k)

C1_Witness ==
    /\ Done("mul") /\ p = <<2, -1, 2>> /\ rhs_coefs = <<1, 1>>
    /\ out = <<2, 1, 1, 2>>

\* C2: add and add_inplace (sub and sub_inplace) produce the same sequence,
\* of length max(len(p), len(q)) with p[k] + q[k] (p[k] - q[k]) at every
\* index k, a coefficient past the end of the shorter operand counting as
\* zero; the value-returning form equals the in-place form run on a clone.
C2_AddSubPointwise ==
    /\ Done("add") =>
        /\ out = Pointwise(p, rhs_coefs, 1)
        /\ out = add_vec_inplace(to_owned(p), rhs_coefs)
    /\ Done("add_inplace") => self_coefs = Pointwise(p, rhs_coefs, 1)
    /\ Done("sub") =>
        /\ out = Pointwise(p, rhs_coefs, -1)
        /\ out = sub_vec_inplace(to_owned(p), rhs_coefs)
    /\ Done("sub_inplace") => self_coefs = Pointwise(p, rhs_coefs, -1)

C2_Witness ==
    /\ Done("sub_inplace") /\ Len(p) = 1 /\ Len(rhs_coefs) = 2
    /\ self_coefs = <<3, -1>>

\* C3: p.add(q).subtract(q) has the same coefficient value as p at every
\* exponent, although the raw result is longer than p when q is longer.
C3_AddThenSubRestores ==
    Done("add") => CoefEq(sub(out, rhs_coefs), p)

C3_Witness ==
    /\ Done("add") /\ Len(rhs_coefs) > Len(p) /\ ~AllCoefsZero(rhs_coefs)
    /\ Len(sub(out, rhs_coefs)) > Len(p)

\* C4: differentiate() returns d with d[m-1] = m * p[m] for every index
\* m >= 1 of p and nothing else, so len(d) = len(p) - 1 for nonempty p and d
\* is empty for p of length 0 or 1; p itself is left unchanged.
C4_DifferentiateShape ==
    Done("differentiate") =>
        /\ Len(out) = Max(Len(p) - 1, 0)
        /\ \A m \in 1..(Len(p) - 1) : out[m] = m * p[m + 1]
        /\ self_coefs = p

C4_Witness ==
    Done("differentiate") /\ Len(p) = 3 /\ p[1] # 0 /\ out = <<-1, 4>>

\* C5: p.power(0) is [1], p.power(1) is the coefficient sequence of p, and
\* for exp >= 2 p.power(exp) equals p.multiply(p.power(exp - 1)): the
\* recursion ends after exp - 1 multiplications with the exp-fold
\* convolution product of p with itself.
C5_PowRecursion ==
    Done("pow") =>
        /\ exp = 0 => out = <<1>> /\ muls = 0
        /\ exp = 1 => out = p /\ muls = 0
        /\ exp >= 2 =>
            /\ out = mul(p, pow(p, exp - 1))
            /\ muls = exp - 1
            /\ out = ConvPower(p, exp)

C5_Witness ==
    Done("pow") /\ exp = 3 /\ muls = 2 /\ Len(p) = 2 /\ out = <<8, -12, 6, -1>>

\* C6: p.apply(g) has at every exponent the value of the sum over the
\* indices m of p of p[m] * g^m, with g^m = g.power(m); an empty p gives the
\* zero polynomial, an empty g gives the constant term p[0], and the
\* monomial x = [0, 1] gives a polynomial equal to p at every exponent.
C6_ApplyIsSubstitution ==
    Done("apply") =>
        /\ LET gs == [m \in 1..Len(p) |-> pow(rhs_coefs, m - 1)]
           IN  \A k \in 0..Max(Len(out), MaxLenOf(gs)) :
                   At(out, k) = TermSum(p, gs, k)
        /\ Len(p) = 0 => AllCoefsZero(out)
        /\ AllCoefsZero(rhs_coefs) => CoefEq(out, <<At(p, 0)>>)
        /\ rhs_coefs = monomial(1, 1) => CoefEq(out, p)

C6_Witness ==
    /\ Done("apply") /\ p = <<2, -1, 2>> /\ rhs_coefs = <<1, -1>>
    /\ out = <<3, -3, 2>>

\* C7: the classifier returns Zero for every polynomial whose coefficients
\* are all zero, whatever its length, and Constant for every polynomial that
\* is not zero but has only zero coefficients above the constant term; the
\* Zero test comes first, so an all-zero polynomial is never Constant.
C7_ZeroThenConstant ==
    Done("find_prob_unimode") =>
        /\ modality \in Modality
        /\ (modality = "Zero") = AllCoefsZero(p)
        /\ (modality = "Constant") = (~AllCoefsZero(p) /\ HigherCoefsZero(p))

C7_Witness ==
    Done("find_prob_unimode") /\ p = <<2, 0, 0>> /\ modality = "Constant"

\* C9: in the loops of add, subtract, their in-place variants and multiply,
\* the index k written (pos, or i + j) never exceeds the current length of
\* the sequence being built: an existing entry is updated when k < length
\* and an entry is pushed exactly when k = length, so the sequence grows one
\* entry at a time with no gap.
C9_StepInRange(k, v) ==
    /\ k <= Len(coefs)
    /\ k < Len(coefs) =>
        /\ Len(coefs') = Len(coefs)
        /\ coefs' = [coefs EXCEPT ![k + 1] = @ + v]
    /\ k = Len(coefs) => coefs' = Append(coefs, v)

C9_IndicesInRange ==
    [][ /\ (pc = "add_vec" /\ pos < Len(rhs_coefs)) =>
            C9_StepInRange(pos, rhs_coefs[pos + 1])
        /\ (pc = "sub_vec" /\ pos < Len(rhs_coefs)) =>
            C9_StepInRange(pos, 0 - rhs_coefs[pos + 1])
        /\ (pc = "mul" /\ i < Len(self_coefs) /\ j < Len(rhs_coefs)) =>
            C9_StepInRange(i + j, self_coefs[i + 1] * rhs_coefs[j + 1])
      ]_vars

C9_Witness ==
    /\ pc = "mul" /\ i = 2 /\ j = 1 /\ Len(rhs_coefs) = 2
    /\ i + j = Len(coefs) /\ Len(self_coefs) = 3

\* C10: trailing zero padding is tolerated: operands that differ only in
\* trailing zero entries give results with the same value at every exponent
\* under add, subtract, multiply, power, apply and differentiate, and the
\* same answer from is_zero.
C10_PaddingTolerated ==
    pc = "done" => \A a \in Variants(p), b \in Variants(rhs_coefs) :
        /\ Done("add") => CoefEq(add(a, b), out)
        /\ Done("add_inplace") => CoefEq(add_vec_inplace(a, b), self_coefs)
        /\ Done("sub") => CoefEq(sub(a, b), out)
        /\ Done("sub_inplace") => CoefEq(sub_vec_inplace(a, b), self_coefs)
        /\ Done("mul") => CoefEq(mul(a, b), out)
        /\ Done("pow") => CoefEq(pow(a, exp), out)
        /\ Done("apply") => CoefEq(apply(a, b), out)
        /\ Done("differentiate") => CoefEq(differentiate(a), out)
        /\ Done("is_zero") => is_zero(a) = flag

C10_Witness ==
    /\ Done("mul") /\ p = <<2, -1, 0>> /\ rhs_coefs = <<-1, 0>>
    /\ out = <<-2, 1, 0, 0>>

====
